---- MODULE Spec2Model ----
(***************************************************************************)
(* Model of the go-css parser (parser.go): the tokenizer built on Go's     *)
(* text/scanner, the token classifier, the block parser `parse`, and the   *)
(* extraction utilities Rules, BlockCount and Names.                       *)
(*                                                                         *)
(* A character is a one-character string; a text, a token value, a rule    *)
(* name, a property name and a property value are sequences of characters  *)
(* (Go strings), so that string concatenation is \o and "" is <<>>.        *)
(* A Go map is a function; maps are reference values in Go, so the parser's*)
(* maps live in `heap` and `css` / `styles` hold references into it.       *)
(***************************************************************************)
EXTENDS Integers, Sequences, FiniteSets, TLC

VARIABLES
    b,          \* the bytes handed to Tokenize / Unmarshal
    pc,         \* "init" | "tokens" | "parse" | "returned"
    l,          \* the token list (container/list), front first
    rule,       \* parse: accumulated selector names
    style,      \* parse: current property name
    value,      \* parse: current property value
    selector,   \* parse: last selector prefix seen
    isBlock,    \* parse: inside { ... }
    css,        \* parse: Rule -> reference of its property map
    styles,     \* parse: reference of the current block's property map
    heap,       \* the maps allocated so far, by reference
    prevToken,  \* parse: type of the previous token
    err,        \* the error parse returned (NoErr: nil)
    ret,        \* the value returned by the latest extraction call
    done,       \* history: the tokens parse has taken from the list, in order
    sheet       \* history: the blocks b was written from (<<>>: b is free text)

vars == <<b, pc, l, rule, style, value, selector, isBlock, css, styles, heap,
          prevToken, err, ret, done, sheet>>

parseVars == <<rule, style, value, selector, isBlock, css, styles, heap, prevToken>>

----------------------------------------------------------------------------
(* Token types: const ( tokenFirstToken tokenType = iota - 1 ; ... )        *)

tokenFirstToken == 0 - 1
tokenBlockStart == 0
tokenBlockEnd == 1
tokenRuleName == 2
tokenValue == 3
tokenSelector == 4
tokenStyleSeparator == 5
tokenStatementEnd == 6

newTokenType(typ) ==
    CASE typ = <<"{">> -> tokenBlockStart
      [] typ = <<"}">> -> tokenBlockEnd
      [] typ = <<":">> -> tokenStyleSeparator
      [] typ = <<";">> -> tokenStatementEnd
      [] typ \in {<<".">>, <<"#">>} -> tokenSelector
      [] OTHER -> tokenValue

TokenTypeString(t) ==
    CASE t = tokenBlockStart -> "BLOCK_START"
      [] t = tokenBlockEnd -> "BLOCK_END"
      [] t = tokenStyleSeparator -> "STYLE_SEPARATOR"
      [] t = tokenStatementEnd -> "STATEMENT_END"
      [] t = tokenSelector -> "SELECTOR"
      [] OTHER -> "VALUE"

typ(e) == newTokenType(e.value)

----------------------------------------------------------------------------
(* The tokenizer.  newTokenizer leaves scanner.IsIdentRune nil, so the      *)
(* first Scan runs with text/scanner's own identifier rule ("default");     *)
(* next() installs one of its two rules only after a token was scanned.     *)
(* The texts of the model are written over Letters, "-", "{", "}", ":",     *)
(* ";", ".", "#" and white space: no digit, quote or "/" (which the first   *)
(* Scan would read as a Go number, string or comment).                      *)

Letters == {"a", "b", "c", "x", "y", "u", "v"}

GoWhitespace == {" ", "\t", "\n", "\r"}

IsIdentRuneValue(ch) == ch \notin {"\n", "\t", ":", ";"}

IsIdentRuneOther(ch) == ch \notin {".", "#", "\n", " ", "\t", ":", ";"}

IsIdentRuneDefault(ch) == ch = "_" \/ ch \in Letters

IsIdentRune(mode, ch) ==
    CASE mode = "value" -> IsIdentRuneValue(ch)
      [] mode = "other" -> IsIdentRuneOther(ch)
      [] OTHER -> IsIdentRuneDefault(ch)

RECURSIVE SkipWhitespace(_, _)
SkipWhitespace(text, i) ==
    IF i <= Len(text) /\ text[i] \in GoWhitespace
    THEN SkipWhitespace(text, i + 1)
    ELSE i

RECURSIVE scanIdentifier(_, _, _)
scanIdentifier(text, mode, i) ==
    IF i <= Len(text) /\ IsIdentRune(mode, text[i])
    THEN scanIdentifier(text, mode, i + 1)
    ELSE i

RECURSIVE CountNewlines(_, _)
CountNewlines(text, n) ==
    IF n = 0 THEN 0
    ELSE CountNewlines(text, n - 1) + (IF text[n] = "\n" THEN 1 ELSE 0)

(* Scanner.Pos() after a Scan whose look-ahead character is text[e] (end of *)
(* input when e > Len(text)): the position right after the token.           *)
ScannerPosLineOfLookahead(text, e) ==
    LET read == IF e <= Len(text) THEN e ELSE Len(text)
    IN  [Offset |-> e - 1, Line |-> 1 + CountNewlines(text, read)]

ScannerPos(text, e) ==
    LET read == IF e <= Len(text) THEN e ELSE Len(text)  \* characters read so far
        line == 1 + CountNewlines(text, read)            \* s.line
        columnIsZero == e <= Len(text) /\ text[e] = "\n"  \* the last one read is a newline
        sawNewline == CountNewlines(text, read) > 0      \* s.lastLineLen > 0
    IN  [Offset |-> e - 1,
         Line |-> IF ~columnIsZero THEN line
                  ELSE IF sawNewline THEN line - 1
                  ELSE 1]

(* Scanner.Scan() from look-ahead index i: the token text and the index of  *)
(* the next look-ahead character; eof when only white space is left.        *)
Scan(text, mode, i) ==
    LET s == SkipWhitespace(text, i)
    IN  IF s > Len(text) THEN [eof |-> TRUE, from |-> s, to |-> s]
        ELSE IF IsIdentRune(mode, text[s])
        THEN [eof |-> FALSE, from |-> s, to |-> scanIdentifier(text, mode, s + 1)]
        ELSE [eof |-> FALSE, from |-> s, to |-> s + 1]

(* tokenizer.next(): the entry scanned and the identifier rule it installs. *)
NextMode(tokenText) ==
    IF TokenTypeString(newTokenType(tokenText)) = "STYLE_SEPARATOR"
    THEN "value" ELSE "other"

TokenEntry(text, sc) ==
    [value |-> SubSeq(text, sc.from, sc.to - 1), pos |-> ScannerPos(text, sc.to)]

RECURSIVE buildListFrom(_, _, _)
buildListFrom(text, mode, i) ==
    LET sc == Scan(text, mode, i)
    IN  IF sc.eof THEN <<>>
        ELSE LET token == TokenEntry(text, sc)
             IN  <<token>> \o buildListFrom(text, NextMode(token.value), sc.to)

buildList(text) == buildListFrom(text, "default", 1)

TokenizeList(text) == buildList(text)

----------------------------------------------------------------------------
(* Go maps as functions.                                                    *)

EmptyMap == <<>>

MapPut(m, k, v) == [x \in (DOMAIN m) \cup {k} |-> IF x = k THEN v ELSE m[x]]

(* The Stylesheet as the caller reads it: every Rule with its property map. *)
Sheet == [r \in DOMAIN css |-> heap[css[r]]]

NoErr == [line |-> 0, msg |-> ""]

Errorf(line, msg) == [line |-> line, msg |-> msg]

NoRet == [fn |-> "", val |-> <<>>]

----------------------------------------------------------------------------
(* Tokenize / buildList: the list is built in one call.                     *)

Tokenize ==
    /\ pc = "init"
    /\ l' = TokenizeList(b)
    /\ pc' = "tokens"
    /\ UNCHANGED <<b, parseVars, err, ret, done, sheet>>

----------------------------------------------------------------------------
(* parse: one iteration of `for e := l.Front(); e != nil; e = l.Front()`.   *)
(* The locals keep the values of their declaration until the first         *)
(* iteration.  An iteration takes the front token off the list and then    *)
(* switches on its type; a failed guard returns css with the error.        *)

Return(e) ==
    /\ pc' = "returned"
    /\ err' = e
    /\ UNCHANGED parseVars

Continue ==
    /\ pc' = "parse"
    /\ err' = err

(* The Value case without `case tokenValue:` for the predecessor. *)
parseValueNotAfterValue(token) ==
    CASE prevToken \in {tokenFirstToken, tokenBlockEnd} ->
            /\ rule' = Append(rule, token.value)
            /\ Continue
            /\ UNCHANGED <<style, value, selector, isBlock, css, styles, heap>>
      [] prevToken = tokenSelector ->
            /\ rule' = Append(rule, selector \o token.value)
            /\ Continue
            /\ UNCHANGED <<style, value, selector, isBlock, css, styles, heap>>
      [] prevToken \in {tokenBlockStart, tokenStatementEnd} ->
            /\ style' = token.value
            /\ Continue
            /\ UNCHANGED <<rule, value, selector, isBlock, css, styles, heap>>
      [] prevToken = tokenStyleSeparator ->
            /\ value' = token.value
            /\ Continue
            /\ UNCHANGED <<rule, style, selector, isBlock, css, styles, heap>>
      [] OTHER ->
            Return(Errorf(token.pos.Line, "invalid syntax"))

(* case tokenValue: switch prevToken *)
parseValue(token) ==
    CASE prevToken \in {tokenFirstToken, tokenBlockEnd} ->
            /\ rule' = Append(rule, token.value)
            /\ Continue
            /\ UNCHANGED <<style, value, selector, isBlock, css, styles, heap>>
      [] prevToken = tokenSelector ->
            /\ rule' = Append(rule, selector \o token.value)
            /\ Continue
            /\ UNCHANGED <<style, value, selector, isBlock, css, styles, heap>>
      [] prevToken \in {tokenBlockStart, tokenStatementEnd} ->
            /\ style' = token.value
            /\ Continue
            /\ UNCHANGED <<rule, value, selector, isBlock, css, styles, heap>>
      [] prevToken = tokenStyleSeparator ->
            /\ value' = token.value
            /\ Continue
            /\ UNCHANGED <<rule, style, selector, isBlock, css, styles, heap>>
      [] prevToken = tokenValue ->
            /\ rule' = Append(rule, token.value)
            /\ Continue
            /\ UNCHANGED <<style, value, selector, isBlock, css, styles, heap>>
      [] OTHER ->
            Return(Errorf(token.pos.Line, "invalid syntax"))

(* case tokenSelector *)
parseSelector(token) ==
    /\ selector' = token.value
    /\ Continue
    /\ UNCHANGED <<rule, style, value, isBlock, css, styles, heap>>

(* case tokenBlockStart *)
parseBlockStart(token) ==
    IF prevToken # tokenValue
    THEN Return(Errorf(token.pos.Line, "block is missing rule identifier"))
    ELSE /\ isBlock' = TRUE
         /\ Continue
         /\ UNCHANGED <<rule, style, value, selector, css, styles, heap>>

(* case tokenStatementEnd *)
StatementEndGuard == prevToken # tokenValue \/ style = <<>> \/ value = <<>>

parseStatementEnd(token) ==
    IF StatementEndGuard
    THEN Return(Errorf(token.pos.Line, "expected style before semicolon"))
    ELSE /\ heap' = [heap EXCEPT ![styles] = MapPut(heap[styles], style, value)]
         /\ Continue
         /\ UNCHANGED <<rule, style, value, selector, isBlock, css, styles>>

(* What the merge of an older entry into the current map comes to: the
   current map keeps its properties and gains those only the older has.    *)
MergeInto(cur, oldRule) ==
    [k \in (DOMAIN cur) \cup (DOMAIN oldRule) |->
        IF k \in DOMAIN cur THEN cur[k] ELSE oldRule[k]]

(* The css and heap after iterations i..len of `for i := range rule` when
   every merge comes to MergeInto.                                         *)
RECURSIVE MergeRules(_, _, _)
MergeRules(i, c, h) ==
    IF i > Len(rule) THEN [css |-> c, heap |-> h]
    ELSE LET r == rule[i]
             h1 == IF r \in DOMAIN c
                   THEN [h EXCEPT ![styles] = MergeInto(h[styles], h[c[r]])]
                   ELSE h
         IN  MergeRules(i + 1, MapPut(c, r, styles), h1)

(* `for style, value := range oldRule`: Go leaves the order in which a map
   is ranged over unspecified; every order of the keys is possible.        *)
RangeOrders(m) ==
    {q \in [1..Cardinality(DOMAIN m) -> DOMAIN m] :
        \A x \in DOMAIN q : \A y \in DOMAIN q : x # y => q[x] # q[y]}

(* A merge that stops at the first property it copies. *)
RECURSIVE MergeCopiesOne(_, _, _)
MergeCopiesOne(cur, oldRule, order) ==
    IF order = <<>> THEN cur
    ELSE IF Head(order) \in DOMAIN cur
    THEN MergeCopiesOne(cur, oldRule, Tail(order))
    ELSE MapPut(cur, Head(order), oldRule[Head(order)])

(* `if _, ok := styles[style]; !ok { styles[style] = value }` for the keys
   of oldRule in the order given.                                          *)
RECURSIVE MergeInOrder(_, _, _)
MergeInOrder(cur, oldRule, order) ==
    IF order = <<>> THEN cur
    ELSE MergeInOrder(IF Head(order) \in DOMAIN cur
                      THEN cur
                      ELSE MapPut(cur, Head(order), oldRule[Head(order)]),
                      oldRule, Tail(order))

(* case tokenBlockEnd: `for i := range rule { ... css[Rule(rule[i])] = styles }`.
   The map the loop writes into is the one `styles` refers to; an older entry
   may be that very map.  The css and heap that iterations i..len can leave,
   one for every order the merges can range in.                            *)
RECURSIVE MergeRulesOutcomes(_, _, _)
MergeRulesOutcomes(i, c, h) ==
    IF i > Len(rule) THEN {[css |-> c, heap |-> h]}
    ELSE LET r == rule[i]
             hs == IF r \in DOMAIN c
                   THEN {[h EXCEPT ![styles] = MergeInOrder(h[styles], h[c[r]], q)] :
                            q \in RangeOrders(h[c[r]])}
                   ELSE {h}
         IN  UNION {MergeRulesOutcomes(i + 1, MapPut(c, r, styles), h1) : h1 \in hs}

parseBlockEndKeepsStyle(token) ==
    IF ~isBlock
    THEN Return(Errorf(token.pos.Line, "rule block ends without a beginning"))
    ELSE \E m \in MergeRulesOutcomes(1, css, heap) :
             /\ css' = m.css
             /\ heap' = Append(m.heap, EmptyMap)
             /\ styles' = Len(m.heap) + 1
             /\ value' = <<>>
             /\ isBlock' = FALSE
             /\ Continue
             /\ UNCHANGED <<rule, selector, style>>

parseBlockEndStaysOpen(token) ==
    IF ~isBlock
    THEN Return(Errorf(token.pos.Line, "rule block ends without a beginning"))
    ELSE \E m \in MergeRulesOutcomes(1, css, heap) :
             /\ css' = m.css
             /\ heap' = Append(m.heap, EmptyMap)
             /\ styles' = Len(m.heap) + 1
             /\ style' = <<>>
             /\ value' = <<>>
             /\ Continue
             /\ UNCHANGED <<rule, selector, isBlock>>

parseBlockEnd(token) ==
    IF ~isBlock
    THEN Return(Errorf(token.pos.Line, "rule block ends without a beginning"))
    ELSE \E m \in MergeRulesOutcomes(1, css, heap) :
             /\ css' = m.css
             /\ heap' = Append(m.heap, EmptyMap)
             /\ styles' = Len(m.heap) + 1
             /\ style' = <<>>
             /\ value' = <<>>
             /\ isBlock' = FALSE
             /\ Continue
             /\ UNCHANGED <<rule, selector>>

Dispatch(token) ==
    CASE typ(token) = tokenValue -> parseValue(token)
      [] typ(token) = tokenSelector -> parseSelector(token)
      [] typ(token) = tokenBlockStart -> parseBlockStart(token)
      [] typ(token) = tokenStatementEnd -> parseStatementEnd(token)
      [] typ(token) = tokenBlockEnd -> parseBlockEnd(token)
      [] OTHER -> Continue /\ UNCHANGED <<rule, style, value, selector, isBlock, css, styles, heap>>

RemoveFront(list) == Tail(list)

parseStep ==
    /\ pc \in {"tokens", "parse"}
    /\ l # <<>>
    /\ LET token == Head(l)
       IN  /\ l' = RemoveFront(l)
           /\ done' = Append(done, token)
           /\ Dispatch(token)
           /\ prevToken' = IF pc' = "returned" THEN prevToken ELSE typ(token)
    /\ ret' = NoRet
    /\ UNCHANGED <<b, sheet>>

(* An end of the loop that stores the open block as a `}` would. *)
parseReturnClosesBlock ==
    /\ pc \in {"tokens", "parse"}
    /\ l = <<>>
    /\ pc' = "returned"
    /\ err' = NoErr
    /\ ret' = NoRet
    /\ \E m \in MergeRulesOutcomes(1, css, heap) :
          /\ css' = IF isBlock THEN m.css ELSE css
          /\ heap' = IF isBlock THEN m.heap ELSE heap
    /\ UNCHANGED <<b, l, rule, style, value, selector, isBlock, styles, prevToken, done, sheet>>

(* the loop ends: `return css, nil` *)
parseReturn ==
    /\ pc \in {"tokens", "parse"}
    /\ l = <<>>
    /\ pc' = "returned"
    /\ err' = NoErr
    /\ ret' = NoRet
    /\ UNCHANGED <<b, l, parseVars, done, sheet>>

----------------------------------------------------------------------------
(* The extraction utilities walk the list with e.Next() and leave it alone.  *)

RECURSIVE Join(_, _)
Join(elems, sep) ==
    IF elems = <<>> THEN <<>>
    ELSE IF Len(elems) = 1 THEN elems[1]
    ELSE elems[1] \o sep \o Join(Tail(elems), sep)

(* Rules without `rule = make([]string, 0)` at a BlockStart. *)
RECURSIVE RulesFromKeepsNames(_, _, _, _, _, _)
RulesFromKeepsNames(tokens, i, sel, rl, rules, prev) ==
    IF i > Len(tokens) THEN rules
    ELSE LET tok == tokens[i]
             t == typ(tok)
             rl1 == IF t = tokenValue
                    THEN IF prev \in {tokenBlockEnd, tokenFirstToken, tokenValue}
                         THEN Append(rl, tok.value)
                         ELSE IF prev = tokenSelector
                         THEN Append(rl, sel \o tok.value)
                         ELSE rl
                    ELSE rl
             sel1 == IF t = tokenSelector THEN <<".">> ELSE sel
             rules1 == IF t = tokenBlockStart
                       THEN Append(rules, Join(rl, <<" ">>))
                       ELSE rules
         IN  RulesFromKeepsNames(tokens, i + 1, sel1, rl1, rules1, t)

RECURSIVE RulesFrom(_, _, _, _, _, _)
RulesFrom(tokens, i, sel, rl, rules, prev) ==
    IF i > Len(tokens) THEN rules
    ELSE LET tok == tokens[i]
             t == typ(tok)
             rl1 == IF t = tokenValue
                    THEN IF prev \in {tokenBlockEnd, tokenFirstToken, tokenValue}
                         THEN Append(rl, tok.value)
                         ELSE IF prev = tokenSelector
                         THEN Append(rl, sel \o tok.value)
                         ELSE rl
                    ELSE IF t = tokenBlockStart THEN <<>>
                    ELSE rl
             sel1 == IF t = tokenSelector THEN <<".">> ELSE sel
             rules1 == IF t = tokenBlockStart
                       THEN Append(rules, Join(rl, <<" ">>))
                       ELSE rules
         IN  RulesFrom(tokens, i + 1, sel1, rl1, rules1, t)

Rules(tokens) == RulesFrom(tokens, 1, <<>>, <<>>, <<>>, tokenFirstToken)

RECURSIVE BlockCountFrom(_, _, _)
BlockCountFrom(tokens, i, count) ==
    IF i > Len(tokens) THEN count
    ELSE BlockCountFrom(tokens, i + 1,
                        IF typ(tokens[i]) = tokenBlockStart THEN count + 1 ELSE count)

BlockCount(tokens) == BlockCountFrom(tokens, 1, 0)

RECURSIVE NamesFrom(_, _, _, _)
NamesFrom(tokens, i, names, prev) ==
    IF i > Len(tokens) THEN names
    ELSE LET tok == tokens[i]
             names1 == IF typ(prev) = tokenSelector
                       THEN Append(names, prev.value \o tok.value)
                       ELSE IF typ(prev) = tokenBlockEnd /\ typ(tok) # tokenSelector
                       THEN Append(names, tok.value)
                       ELSE names
         IN  NamesFrom(tokens, i + 1, names1, tok)

Names(tokens) == NamesFrom(tokens, 1, <<>>, [value |-> <<>>, pos |-> [Offset |-> 0, Line |-> 0]])

(* What each utility leaves in the list it was given. *)
ListDrainedByRules(tokens) == <<>>

ListAfterRules(tokens) == tokens

ListAfterBlockCount(tokens) == tokens

ListAfterNames(tokens) == tokens

CallRules ==
    /\ pc \in {"tokens", "returned"}
    /\ ret' = [fn |-> "Rules", val |-> Rules(l)]
    /\ l' = ListAfterRules(l)
    /\ UNCHANGED <<b, pc, parseVars, err, done, sheet>>

CallBlockCount ==
    /\ pc \in {"tokens", "returned"}
    /\ ret' = [fn |-> "BlockCount", val |-> BlockCount(l)]
    /\ l' = ListAfterBlockCount(l)
    /\ UNCHANGED <<b, pc, parseVars, err, done, sheet>>

CallNames ==
    /\ pc \in {"tokens", "returned"}
    /\ ret' = [fn |-> "Names", val |-> Names(l)]
    /\ l' = ListAfterNames(l)
    /\ UNCHANGED <<b, pc, parseVars, err, done, sheet>>

----------------------------------------------------------------------------
(* The inputs.                                                              *)

MaxChunks == 4
MaxBlocks == 3
MaxDecls == 3
MaxText == 3

RECURSIVE Flatten(_)
Flatten(ss) == IF ss = <<>> THEN <<>> ELSE Head(ss) \o Flatten(Tail(ss))

SeqsUpTo(S, n) == UNION {[1..k -> S] : k \in 0..n}

(* Pieces of stylesheet text, written one after another with a separator:
   single tokens, an opened block with one declaration, a complete block.  *)
OpenChunk == <<"a", " ", "{", "\n", "\t", "x", ":", " ", "u", ";">>

BlockChunk == <<"b", " ", "{", "\n", "\t", "y", ":", " ", "v", ";", "\n", "}">>

Chunks == {<<"a">>, <<".">>, <<"{">>, <<"}">>, <<":">>, <<";">>, OpenChunk, BlockChunk}

Separators == {<<" ">>, <<"\n">>}

(* Well-formed stylesheets laid out as in the README example:
   sel {<newline><tab>prop: val;<newline> ... }                            *)
Selectors == {<<"a">>, <<"b">>, <<".", "a">>}

Declarations == {[prop |-> <<"x">>, val |-> <<"u">>],
                 [prop |-> <<"x">>, val |-> <<"v">>],
                 [prop |-> <<"y">>, val |-> <<"u">>]}

DeclText(d) == <<"\t">> \o d.prop \o <<":", " ">> \o d.val \o <<";", "\n">>

RECURSIVE DeclsText(_)
DeclsText(ds) == IF ds = <<>> THEN <<>> ELSE DeclText(Head(ds)) \o DeclsText(Tail(ds))

BlockText(blk) == blk.sel \o <<" ", "{", "\n">> \o DeclsText(blk.decls) \o <<"}">>

RECURSIVE SheetText(_)
SheetText(blocks) ==
    IF blocks = <<>> THEN <<>>
    ELSE IF Len(blocks) = 1 THEN BlockText(blocks[1])
    ELSE BlockText(blocks[1]) \o <<"\n">> \o SheetText(Tail(blocks))

RECURSIVE DeclCount(_)
DeclCount(blocks) ==
    IF blocks = <<>> THEN 0 ELSE Len(Head(blocks).decls) + DeclCount(Tail(blocks))

(* The sheets of exactly k blocks with at most d declarations in all. *)
RECURSIVE SheetsOf(_, _)
SheetsOf(k, d) ==
    IF k = 0 THEN {<<>>}
    ELSE UNION {{<<[sel |-> s, decls |-> ds]>> \o rest : rest \in SheetsOf(k - 1, d - Len(ds))} :
                    s \in Selectors, ds \in SeqsUpTo(Declarations, d)}

WellFormedSheets(maxBlocks, maxDecls) == UNION {SheetsOf(k, maxDecls) : k \in 1..maxBlocks}

(* Single blocks written on one line: sel { prop: val; }                   *)
SingleSelectors == {<<"a">>, <<".", "a">>, <<"#", "a">>, <<"a", "-", "b">>}

SingleProps == {<<"x">>, <<"x", "-", "y">>}

SingleVals == {<<"u">>, <<"u", " ", "v">>}

SingleBlocks ==
    {<<[sel |-> s, decls |-> <<[prop |-> p, val |-> v]>>]>> :
        s \in SingleSelectors, p \in SingleProps, v \in SingleVals}

SingleText(bs) ==
    bs[1].sel \o <<" ", "{", " ">> \o bs[1].decls[1].prop \o <<":", " ">>
        \o bs[1].decls[1].val \o <<";", " ", "}">>

(* Raw texts: every short character sequence, and blocks written without
   white space around the braces.                                          *)
Alphabet == {"a", "-", " ", "\n", "{", "}", ":", ";", ".", "#"}

CompactBlock(s) == <<s, "{", "}">>

CompactTexts == {Flatten([i \in 1..Len(f) |-> CompactBlock(f[i])]) :
                    f \in SeqsUpTo({"a", "b", "c"}, MaxBlocks)}

InitLocals ==
    /\ pc = "init"
    /\ l = <<>>
    /\ rule = <<>>
    /\ style = <<>>
    /\ value = <<>>
    /\ selector = <<>>
    /\ isBlock = FALSE
    /\ css = <<>>
    /\ heap = <<EmptyMap>>
    /\ styles = 1
    /\ prevToken = tokenFirstToken
    /\ err = NoErr
    /\ ret = NoRet
    /\ done = <<>>

Init ==
    /\ \E k \in 0..MaxChunks : \E cs \in [1..k -> Chunks] : \E sep \in Separators :
           b = Join(cs, sep)
    /\ sheet = <<>>
    /\ InitLocals

InitSheets ==
    /\ sheet \in WellFormedSheets(MaxBlocks, MaxDecls)
    /\ b = SheetText(sheet)
    /\ InitLocals

InitSingle ==
    /\ sheet \in SingleBlocks
    /\ b = SingleText(sheet)
    /\ InitLocals

InitRaw ==
    /\ \/ \E k \in 0..MaxText : b \in [1..k -> Alphabet]
       \/ b \in CompactTexts
    /\ sheet = <<>>
    /\ InitLocals

Next ==
    \/ Tokenize
    \/ parseStep
    \/ parseReturn
    \/ CallRules
    \/ CallBlockCount
    \/ CallNames

Spec == Init /\ [][Next]_vars

SpecSheets == InitSheets /\ [][Next]_vars

SpecSingle == InitSingle /\ [][Next]_vars

SpecRaw == InitRaw /\ [][Next]_vars

----------------------------------------------------------------------------
(* Vocabulary of the properties.                                            *)

Last(q) == q[Len(q)]

Parsing == pc \in {"tokens", "parse"}

(* The step just taken was an accepted token of the given type. *)
Accepted(t) == pc = "parse" /\ done # <<>> /\ typ(Last(done)) = t

(* What the sheet b was written from declares. *)
SheetSelectors == {sheet[i].sel : i \in 1..Len(sheet)}

RECURSIVE DeclsOfRule(_, _)
DeclsOfRule(blocks, r) ==
    IF blocks = <<>> THEN <<>>
    ELSE (IF Head(blocks).sel = r THEN Head(blocks).decls ELSE <<>>)
            \o DeclsOfRule(Tail(blocks), r)

PropsOfRule(r) ==
    LET ds == DeclsOfRule(sheet, r) IN {ds[j].prop : j \in 1..Len(ds)}

ValsOfRule(r, p) ==
    LET ds == DeclsOfRule(sheet, r)
    IN  {ds[j].val : j \in {k \in 1..Len(ds) : ds[k].prop = p}}

LastValOfRule(r, p) ==
    LET ds == DeclsOfRule(sheet, r)
        at == {k \in 1..Len(ds) : ds[k].prop = p}
        j == CHOOSE k \in at : \A m \in at : m <= k
    IN  ds[j].val

BlocksOfRule(r) == {i \in 1..Len(sheet) : sheet[i].sel = r}

----------------------------------------------------------------------------
(* C1: for a well-formed stylesheet of several blocks, parse returns no
   error, the Rules of the result are the selectors written, and the entry
   of each Rule holds exactly the properties declared in the blocks of that
   selector, each with a value declared for it there; a property declared
   only under another selector is not in the entry.                        *)
C1_EntriesOfOwnBlocksOnly ==
    (pc = "returned" /\ sheet # <<>>) =>
        /\ err = NoErr
        /\ DOMAIN Sheet = SheetSelectors
        /\ \A r \in DOMAIN Sheet :
              /\ DOMAIN Sheet[r] = PropsOfRule(r)
              /\ \A p \in DOMAIN Sheet[r] : Sheet[r][p] \in ValsOfRule(r, p)

(* C2: for a single block `sel { prop: val; }`, Unmarshal returns a nil
   error and a Stylesheet with the one Rule sel whose entry is {prop -> val}. *)
C2_SingleBlockResult ==
    (pc = "returned" /\ Len(sheet) = 1 /\ Len(sheet[1].decls) = 1) =>
        /\ err = NoErr
        /\ DOMAIN Sheet = {sheet[1].sel}
        /\ \A r \in DOMAIN Sheet :
              /\ DOMAIN Sheet[r] = {sheet[1].decls[1].prop}
              /\ \A p \in DOMAIN Sheet[r] : Sheet[r][p] = sheet[1].decls[1].val

(* C3: when a selector is declared in two or more blocks, its final entry
   is the union of those blocks' properties and a property declared more
   than once keeps the value of the latest declaration.                    *)
C3_MergeLaterBlockWins ==
    (pc = "returned" /\ sheet # <<>>) =>
        \A r \in SheetSelectors :
            Cardinality(BlocksOfRule(r)) >= 2 =>
                /\ r \in DOMAIN Sheet
                /\ DOMAIN Sheet[r] = PropsOfRule(r)
                /\ \A p \in PropsOfRule(r) : Sheet[r][p] = LastValOfRule(r, p)

----------------------------------------------------------------------------
(* The statement a StatementEnd closes: the tokens taken since the
   preceding BlockStart or StatementEnd, without the closing `;`.          *)
StatementBefore(q, n) ==
    LET starts == {j \in 1..(n - 1) : typ(q[j]) \in {tokenBlockStart, tokenStatementEnd}}
        from == IF starts = {} THEN 0 ELSE CHOOSE j \in starts : \A m \in starts : m <= j
    IN  SubSeq(q, from + 1, n - 1)

(* C4: a StatementEnd is accepted only when its own statement is a complete
   declaration: the statement starts with a property name, a `:` and a
   value, and that pair is what the `;` commits to the block's styles.     *)
C4_StatementEndClosesOwnDeclaration ==
    Accepted(tokenStatementEnd) =>
        LET st == StatementBefore(done, Len(done))
        IN  /\ Len(st) >= 3
            /\ typ(st[1]) = tokenValue
            /\ typ(st[2]) = tokenStyleSeparator
            /\ typ(st[3]) = tokenValue
            /\ st[1].value \in DOMAIN heap[styles]
            /\ heap[styles][st[1].value] = st[3].value

(* C5: a BlockStart is accepted only right after a selector Value, that is
   a Value parse appended to the rule list; never as first token and never
   after a Value that is a property name or a property value (a Value that
   follows `{`, `;` or `:`).                                               *)
C5_BlockStartNeedsSelector ==
    Accepted(tokenBlockStart) =>
        LET n == Len(done)
        IN  /\ n >= 2
            /\ typ(done[n - 1]) = tokenValue
            /\ n >= 3 => typ(done[n - 2]) \notin
                            {tokenBlockStart, tokenStatementEnd, tokenStyleSeparator}

(* A BlockStart was taken and no BlockEnd since. *)
OpenBlock(q) ==
    \E i \in 1..Len(q) :
        /\ typ(q[i]) = tokenBlockStart
        /\ \A j \in (i + 1)..Len(q) : typ(q[j]) # tokenBlockEnd

ParseTakes(t) ==
    /\ Parsing
    /\ l # <<>>
    /\ typ(Head(l)) = t
    /\ done' # done

(* C6: a BlockEnd processed while no block is open fails with "rule block
   ends without a beginning"; a BlockEnd processed while a block is open
   never fails and closes the block.                                       *)
C6_BlockEndNeedsOpenBlock ==
    [][ParseTakes(tokenBlockEnd) =>
            IF OpenBlock(done)
            THEN pc' = "parse" /\ err' = NoErr /\ ~isBlock'
            ELSE /\ pc' = "returned"
                 /\ err' = Errorf(Head(l).pos.Line, "rule block ends without a beginning")]_vars

C6_Witness ==
    /\ pc = "returned"
    /\ err.msg = "rule block ends without a beginning"
    /\ \E i \in 1..(Len(done) - 1) : typ(done[i]) = tokenBlockEnd

(* The line, counted from 1, on which a token of b starts. *)
LineOfToken(tok) == 1 + CountNewlines(b, tok.pos.Offset - Len(tok.value))

Messages == {"invalid syntax", "block is missing rule identifier",
             "expected style before semicolon", "rule block ends without a beginning"}

(* C7: the step that fails returns at once: the error carries the line of
   the offending token and one of the fixed messages, the Stylesheet handed
   back is the one the earlier BlockEnds stored (only an accepted BlockEnd
   ever changes it, and the unfinished block's map is no entry of it), the
   offending token is off the list and nothing is processed afterwards.    *)
C7_AbortAtOffendingToken ==
    [][/\ (err = NoErr /\ err' # NoErr) =>
              /\ Parsing /\ l # <<>>
              /\ pc' = "returned"
              /\ err'.line = LineOfToken(Head(l))
              /\ err'.msg \in Messages
              /\ Sheet' = Sheet
              /\ \A r \in DOMAIN css' : css'[r] # styles'
              /\ l' = Tail(l)
       /\ Sheet' # Sheet =>
              /\ ParseTakes(tokenBlockEnd)
              /\ pc' = "parse"
       /\ pc = "returned" => UNCHANGED <<l, parseVars, err, done, pc>>]_vars

C7_Witness ==
    /\ pc = "returned"
    /\ err # NoErr
    /\ err.line > 1
    /\ DOMAIN css # {}
    /\ heap[styles] # EmptyMap
    /\ l # <<>>

RECURSIVE CountChar(_, _)
CountChar(text, ch) ==
    IF text = <<>> THEN 0
    ELSE (IF Head(text) = ch THEN 1 ELSE 0) + CountChar(Tail(text), ch)

(* C8: for a stylesheet written without white space around its braces,
   BlockCount(Tokenize(text)) is the number of `{` in the text.            *)
C8_BlockCountCompact ==
    (pc = "tokens" /\ ret.fn = "BlockCount" /\ b \in CompactTexts) =>
        ret.val = CountChar(b, "{")

(* C9: a token scanned right after a StyleSeparator token ends only at
   newline, tab, `:`, `;` or the end of input; every other token, the first
   one included, ends only at white space, `.`, `#`, `:`, `;` or the end of
   input; no token is empty or starts with white space.                    *)
ValueBoundary == {"\n", "\t", ":", ";"}

OtherBoundary == {" ", "\n", "\t", "\r", ".", "#", ":", ";"}

BoundaryOf(k) ==
    IF k > 1 /\ l[k - 1].value = <<":">> THEN ValueBoundary ELSE OtherBoundary

C9_TwoBoundaryStates ==
    pc = "tokens" =>
        \A k \in 1..Len(l) :
            LET tok == l[k]
                e == tok.pos.Offset + 1
            IN  /\ tok.value # <<>>
                /\ tok.value[1] \notin GoWhitespace
                /\ tok.value[1] \notin BoundaryOf(k) =>
                      /\ e <= Len(b) => b[e] \in BoundaryOf(k)
                      /\ \A i \in 1..Len(tok.value) : tok.value[i] \notin BoundaryOf(k)

(* C10: parse takes exactly the front token off the list at each step, so
   the tokens taken followed by the list are always the tokens Tokenize
   produced and a successful parse leaves the list empty; Rules, BlockCount
   and Names leave the list as it is and so return the same value when
   called again, and the empty list / 0 on a list parse has emptied.       *)
C10_TokenListLifecycle ==
    [][/\ (Parsing /\ done' # done) =>
              l # <<>> /\ l' = Tail(l) /\ done' = Append(done, Head(l))
       /\ (Parsing /\ pc' = "returned") => done' \o l' = TokenizeList(b)
       /\ (pc' = "returned" /\ err' = NoErr) =>
              /\ l' = <<>>
              /\ ret'.fn = "Rules" => ret'.val = <<>>
              /\ ret'.fn = "BlockCount" => ret'.val = 0
              /\ ret'.fn = "Names" => ret'.val = <<>>
       /\ ret'.fn # "" =>
              /\ l' = l
              /\ done' = done
              /\ ret.fn = ret'.fn => ret'.val = ret.val]_vars

C10_Witness ==
    /\ pc = "returned"
    /\ err # NoErr
    /\ l # <<>>
    /\ done # <<>>
    /\ ret.fn = "Names"
    /\ ret.val # <<>>

----------------------------------------------------------------------------
(* C11: Rules lists a selector written with a prefix under the name written:
   `.a { ... }` as ".a" and `#a { ... }` as "#a", the string parse uses as
   the Rule key.                                                           *)
C11_RulesKeepsPrefix ==
    (/\ pc = "tokens"
     /\ ret.fn = "Rules"
     /\ Len(sheet) = 1
     /\ Head(sheet[1].sel) \in {".", "#"}) => ret.val = <<sheet[1].sel>>

----------------------------------------------------------------------------
(* The positions of the BlockStart tokens of q, and the k-th of them
   (0 for k = 0).                                                          *)
BlockStartsOf(q) == {i \in 1..Len(q) : typ(q[i]) = tokenBlockStart}

NthBlockStart(q, k) ==
    IF k = 0 THEN 0
    ELSE CHOOSE i \in BlockStartsOf(q) :
             Cardinality({j \in BlockStartsOf(q) : j <= i}) = k

(* The selector names written at positions from..to of q: the Value tokens
   that are neither a property (after `{` or `;`) nor a declared value
   (after `:`), with the `.` Rules puts before a name that follows a
   Selector token.                                                         *)
RECURSIVE NamesWritten(_, _, _)
NamesWritten(q, from, to) ==
    IF from > to THEN <<>>
    ELSE LET before == IF from = 1 THEN tokenFirstToken ELSE typ(q[from - 1])
             here == IF typ(q[from]) # tokenValue
                        \/ before \in {tokenBlockStart, tokenStatementEnd, tokenStyleSeparator}
                     THEN <<>>
                     ELSE IF before = tokenSelector
                     THEN <<<<".">> \o q[from].value>>
                     ELSE <<q[from].value>>
         IN  here \o NamesWritten(q, from + 1, to)

(* C12: Rules returns one entry per BlockStart token, in document order and
   without removing duplicates, so its length is BlockCount of the same
   list; the k-th entry is made of the selector names written between the
   (k-1)-th and the k-th BlockStart and of nothing written before.         *)
C12_RulesOneEntryPerBlock ==
    ret.fn = "Rules" =>
        /\ Len(ret.val) = Cardinality(BlockStartsOf(l))
        /\ Len(ret.val) = BlockCount(l)
        /\ \A k \in 1..Len(ret.val) :
              ret.val[k] = Join(NamesWritten(l, NthBlockStart(l, k - 1) + 1,
                                             NthBlockStart(l, k) - 1), <<" ">>)

C12_Witness ==
    /\ ret.fn = "Rules"
    /\ Len(ret.val) >= 2
    /\ ret.val[1] # <<>>
    /\ ret.val[2] = ret.val[1]

----------------------------------------------------------------------------
(* C13: for a well-formed stylesheet Names returns the selector of every
   block, the first block included, as written (prefix and name for a class
   or id, the bare text for a tag), once per block and in document order.  *)
C13_NamesListsEverySelector ==
    (pc = "tokens" /\ ret.fn = "Names" /\ sheet # <<>>) =>
        ret.val = [i \in 1..Len(sheet) |-> sheet[i].sel]

----------------------------------------------------------------------------
(* Rule.Type and CSSStyle: the helpers a caller applies to the keys and the
   entries of a Stylesheet.                                                 *)

HasPrefix(s, prefix) ==
    /\ Len(s) >= Len(prefix)
    /\ SubSeq(s, 1, Len(prefix)) = prefix

(* A Type that asks whether the character occurs anywhere in the rule. *)
RuleTypeAnywhere(r) ==
    IF \E i \in 1..Len(r) : r[i] = "." THEN "class"
    ELSE IF \E i \in 1..Len(r) : r[i] = "#" THEN "id"
    ELSE "tag"

RuleType(r) ==
    IF HasPrefix(r, <<".">>) THEN "class"
    ELSE IF HasPrefix(r, <<"#">>) THEN "id"
    ELSE "tag"

(* The handler registry: the property names a handler is registered for,
   and what the handler of a name returns for a value.  The handlers'
   results are left uninterpreted.                                          *)
StylesTable == {<<"x">>, <<"c">>}

styleFn(name, v) == [style |-> [handler |-> name, arg |-> v], err |-> ""]

ZeroStyle == [handler |-> <<>>, arg |-> <<>>]

(* `value := styles[name]`: the zero string for a missing key. *)
MapGet(m, k) == IF k \in DOMAIN m THEN m[k] ELSE <<>>

(* A CSSStyle that takes `ok` from the styles map instead of the registry. *)
CSSStyleByKey(name, m) ==
    LET v == MapGet(m, name)
    IN  IF name \notin DOMAIN m
        THEN [style |-> ZeroStyle, err |-> "unknown style"]
        ELSE styleFn(name, v)

CSSStyle(name, m) ==
    LET v == MapGet(m, name)
        ok == name \in StylesTable
    IN  IF ~ok
        THEN [style |-> ZeroStyle, err |-> "unknown style"]
        ELSE styleFn(name, v)

(* The rules Type is applied to besides the keys of the Stylesheet, and the
   names CSSStyle is asked for.                                             *)
RuleStrings == {<<>>, <<".">>, <<"#">>, <<"a">>, <<".", "a">>, <<"#", "a">>,
                <<"a", ".", "b">>, <<"a", "#">>, <<".", "#">>, <<"#", ".">>}

StyleNames == {<<"x">>, <<"x", "-", "y">>, <<"c">>, <<"y">>}

CallType ==
    /\ \E r \in RuleStrings \cup DOMAIN css :
          ret' = [fn |-> "Type", val |-> [rule |-> r, out |-> RuleType(r)]]
    /\ UNCHANGED <<b, pc, l, parseVars, err, done, sheet>>

CallCSSStyle ==
    /\ pc = "returned"
    /\ \E r \in DOMAIN css : \E name \in StyleNames :
          ret' = [fn |-> "CSSStyle",
                  val |-> [name |-> name, rule |-> r, out |-> CSSStyle(name, heap[css[r]])]]
    /\ UNCHANGED <<b, pc, l, parseVars, err, done, sheet>>

NextLookup == Next \/ CallType \/ CallCSSStyle

SpecLookup == InitSingle /\ [][NextLookup]_vars

(* C14: CSSStyle(name, styles) returns the error "unknown style" exactly
   when no handler is registered under name, whether or not name is a key
   of styles; otherwise it returns what the handler of name returns for
   styles[name] (the empty string for a missing key); the styles mapping
   and the Stylesheet are left as they were.                               *)
C14_CSSStyleUnknownIffUnregistered ==
    [][(ret'.fn = "CSSStyle" /\ ret' # ret) =>
          LET a == ret'.val
              m == Sheet[a.rule]
          IN  /\ (a.out.err = "unknown style") <=> (a.name \notin StylesTable)
              /\ a.name \in StylesTable =>
                    a.out = styleFn(a.name, IF a.name \in DOMAIN m THEN m[a.name] ELSE <<>>)
              /\ Sheet' = Sheet
              /\ heap' = heap /\ css' = css]_vars

C14_Witness ==
    /\ ret.fn = "CSSStyle"
    /\ ret.val.name \in DOMAIN Sheet[ret.val.rule]
    /\ ret.val.name \notin StylesTable
    /\ ret.val.out.err = "unknown style"

(* C15: Rule.Type() is total: "class" exactly for a rule whose first
   character is `.`, "id" exactly for one whose first character is `#`,
   and "tag" for every other rule, the empty string included.              *)
C15_RuleTypeByFirstCharacter ==
    ret.fn = "Type" =>
        LET r == ret.val.rule
            out == ret.val.out
        IN  /\ out \in {"class", "id", "tag"}
            /\ (out = "class") <=> (r # <<>> /\ Head(r) = ".")
            /\ (out = "id") <=> (r # <<>> /\ Head(r) = "#")

C15_Witness ==
    /\ ret.fn = "Type"
    /\ ret.val.rule = <<>>
    /\ ret.val.out = "tag"

----------------------------------------------------------------------------
(* The categories a token can have, and those a token can follow: what
   newTokenType returns for a token text, and tokenFirstToken before the
   first token.                                                            *)
ProducedTypes == {newTokenType(<<c>>) : c \in Alphabet}

PredecessorTypes == ProducedTypes \cup {tokenFirstToken}

(* The message parse fails with on a token of category t taken after a
   token of category prev, "" when the token is accepted.                  *)
ErrorOutcome(prev, t, blk, st, val) ==
    CASE t = tokenValue ->
            IF prev \in {tokenFirstToken, tokenBlockEnd, tokenSelector, tokenBlockStart,
                         tokenStatementEnd, tokenStyleSeparator, tokenValue}
            THEN "" ELSE "invalid syntax"
      [] t = tokenBlockStart ->
            IF prev # tokenValue THEN "block is missing rule identifier" ELSE ""
      [] t = tokenStatementEnd ->
            IF prev # tokenValue \/ st = <<>> \/ val = <<>>
            THEN "expected style before semicolon" ELSE ""
      [] t = tokenBlockEnd ->
            IF ~blk THEN "rule block ends without a beginning" ELSE ""
      [] OTHER -> ""

(* The kind of error the claim gives to each category of token. *)
KindOf(t) ==
    CASE t = tokenValue -> "invalid syntax"
      [] t = tokenBlockStart -> "block is missing rule identifier"
      [] t = tokenStatementEnd -> "expected style before semicolon"
      [] t = tokenBlockEnd -> "rule block ends without a beginning"
      [] OTHER -> ""

(* C16 as stated: each of the four kinds of error, "invalid syntax"
   included, is raised for some token sequence: whatever token parse is
   about to take, a Value token included, there are a predecessor category
   and a state of the block after which parse fails on it with the error
   of its kind.                                                            *)
C16_EachOfFourKindsRaised ==
    (Parsing /\ l # <<>> /\ KindOf(typ(Head(l))) # "") =>
        \E prev \in PredecessorTypes, blk \in BOOLEAN,
           st \in {<<>>, style}, val \in {<<>>, value} :
            ErrorOutcome(prev, typ(Head(l)), blk, st, val) = KindOf(typ(Head(l)))

(* C16: every error parse returns is one of "block is missing rule
   identifier", "expected style before semicolon" and "rule block ends
   without a beginning", decided by the token taken, its predecessor's
   category and isBlock, style and value; "invalid syntax" is never
   returned, a Value token being accepted after every category.            *)
C16_ThreeErrorKinds ==
    [][(Parsing /\ l # <<>> /\ done' # done) =>
          /\ err'.msg = ErrorOutcome(prevToken, typ(Head(l)), isBlock, style, value)
          /\ err'.msg \in (Messages \ {"invalid syntax"}) \cup {""}
          /\ (err'.msg # "") <=> (pc' = "returned")
          /\ typ(Head(l)) = tokenValue => err' = NoErr]_vars

C16_Witness ==
    /\ pc = "returned"
    /\ err.msg = "expected style before semicolon"
    /\ \E i \in 1..(Len(done) - 1) :
          typ(done[i]) = tokenValue /\ typ(done[i + 1]) = tokenValue

----------------------------------------------------------------------------
(* C17: the entries of the returned Stylesheet are independent: no two
   distinct Rules are bound to the same underlying mapping, so a change
   made through one Rule's entry is never seen through another's.          *)
C17_EntriesNotShared ==
    (pc = "returned" /\ err = NoErr) =>
        \A r1 \in DOMAIN css : \A r2 \in DOMAIN css :
            r1 # r2 => css[r1] # css[r2]

----------------------------------------------------------------------------
(* C18: reaching the end of the tokens is always a success, also while a
   block is open: parse returns a nil error and the Stylesheet built by the
   closed blocks, and the mapping that holds the declarations committed in
   the open block is the entry of no Rule.                                 *)
C18_EndOfTokensIsSuccess ==
    [][(Parsing /\ l = <<>> /\ pc' = "returned") =>
          /\ err' = NoErr
          /\ css' = css
          /\ heap' = heap
          /\ OpenBlock(done) => \A r \in DOMAIN css' : css'[r] # styles']_vars

C18_Witness ==
    /\ pc = "returned"
    /\ err = NoErr
    /\ l = <<>>
    /\ OpenBlock(done)
    /\ heap[styles] # EmptyMap
    /\ css # <<>>

----------------------------------------------------------------------------
(* C19: in every state parse reaches, a non-empty style implies isBlock and
   the per-block styles map is non-empty only while isBlock: no declaration
   is started or committed outside `{ ... }`.                              *)
C19_DeclarationsOnlyInsideBlock ==
    /\ style # <<>> => isBlock
    /\ heap[styles] # EmptyMap => isBlock
    /\ isBlock => OpenBlock(done)

C19_Witness ==
    /\ pc = "parse"
    /\ isBlock
    /\ style # <<>>
    /\ heap[styles] # EmptyMap
    /\ \E i \in 1..Len(done) : typ(done[i]) = tokenBlockEnd

----------------------------------------------------------------------------
(* Well-formed stylesheets small enough to follow every order in which the
   merges of a BlockEnd can range over the older entries.                  *)
MaxMergeBlocks == 2

MaxMergeDecls == 2

InitMerge ==
    /\ sheet \in WellFormedSheets(MaxMergeBlocks, MaxMergeDecls)
    /\ b = SheetText(sheet)
    /\ InitLocals

SpecMerge == InitMerge /\ [][Next]_vars

(* C20: parse is deterministic: the only choice in it is the order in which
   a merge ranges over the older entry, and the Stylesheet a BlockEnd leaves
   does not depend on it; every order leaves the one result in which the
   current block keeps its properties and gains those only the older entry
   has.  Every other step has one outcome, so two runs on equal token
   sequences return equal Stylesheets and errors.                          *)
C20_ParseDeterministic ==
    [][(ParseTakes(tokenBlockEnd) /\ pc' = "parse") =>
          LET m == MergeRules(1, css, heap)
          IN  /\ MergeRulesOutcomes(1, css, heap) = {m}
              /\ css' = m.css
              /\ heap' = Append(m.heap, EmptyMap)
              /\ Sheet' = [r \in DOMAIN m.css |-> m.heap[m.css[r]]]]_vars

C20_Witness ==
    /\ Accepted(tokenBlockEnd)
    /\ l = <<>>
    /\ Len(sheet) = 2
    /\ sheet[2].decls = <<>>
    /\ \E r \in DOMAIN Sheet : Cardinality(DOMAIN Sheet[r]) = 2

====
